---- MODULE Spec2Model ----
(***************************************************************************)
(* GraphVisualizerComponent (src/unnamed/part_000, lines 142-301): the     *)
(* surface state (compiled evaluator, the position buffers of the two mesh *)
(* layers), the animation loop driven by requestAnimationFrame, and the    *)
(* viewport lifecycle (ngAfterViewInit / ngOnChanges / ngOnDestroy).       *)
(*                                                                         *)
(* AppComponent (src/src/app.component.ts), the holder of the component:   *)
(* its loading flags and its requests to AiService (src/unnamed/part_000,  *)
(* lines 10-129).  An async method is one action up to its await and one   *)
(* action, named _Done, for its continuation when the promise settles.     *)
(*                                                                         *)
(* Numbers are fixed-point with three decimals: the JavaScript number v is *)
(* represented by the integer 1000*v (Milli), so that the default formula  *)
(* Math.sin(Math.sqrt(x*x + y*y)) has representable heights.  NaN and the  *)
(* two infinities are three integers outside the range of the finite       *)
(* values.  The clock is Date.now() in milliseconds.                       *)
(***************************************************************************)
EXTENDS Integers, Sequences, FiniteSets, TLC

(* ------------------------------ bounds -------------------------------- *)

\* Segments per side of the sample grid (the code uses 150).
Segments == 2
\* The clock stops at MaxClock seconds.
MaxClock == 2
\* Largest handle requestAnimationFrame hands out.
MaxFrames == 3
\* Requests to AiService that may be in flight, or waiting for their
\* timeout, at once.
MaxRequests == 2

(* ----------------------------- constants ------------------------------ *)

\* Milliseconds per second: the divisor of the elapsed time in animate.
MsPerSecond == 1000
\* Fixed-point unit: 1.0 is represented by Milli, so that a time in
\* milliseconds is the fixed-point representation of the time in seconds.
Milli == MsPerSecond
\* Emissive factors of the wireframe and of the shell, in tenths.
WireEmissiveTenths == 4
SolidEmissiveTenths == 1
\* Vertical field of view of the PerspectiveCamera, in degrees.
CameraFov == 60

(* ------------------------------ numbers ------------------------------- *)

\* Infinity, -Infinity and NaN; every finite value lies strictly between
\* NegInf and PosInf.
PosInf == Milli * Milli * Milli
NegInf == -PosInf
NaN == PosInf + 1
IsNaN(y) == y = NaN
IsFinite(y) == NegInf < y /\ y < PosInf

\* The absent evaluator (compiledFunc = null) and the absent handle
\* (animationFrameId = undefined).
Null == "null"
NoFrame == 0

(* ------------------------------ formulas ------------------------------ *)

DefaultFormula == "Math.sin(Math.sqrt(x*x + y*y))"
DefaultColor == "#22d3ee"

\* The formula texts the host may bind to the formula input.
Formulas ==
  { DefaultFormula, "x+t", "Math.sin(x)/0", "foo+1", "x=5",
    "while(true){}" }

\* The formula and the title AppComponent starts with.
AppDefaultFormula ==
  "Math.sin(x + t) * Math.cos(y + t) + Math.sin(Math.sqrt(x*x + y*y) - t)"
AppDefaultTitle == "Quantum Interference Grid"

Colors == { DefaultColor, "#f472b6" }
TimeScales == { 1, 2 }
Sizes == { <<4, 2>>, <<2, 2>> }

\* new Function('x','y','t', `try { return ${formula}; } catch(e) { return 0; }`)
\* throws a SyntaxError exactly when the text is not a JavaScript expression.
Compiles(text) == text # "while(true){}"

\* 1000 * sin(sqrt(r2)) rounded, for r2 = 0 .. 8.
SinSqrtMilli == <<0, 841, 988, 987, 909, 787, 638, 476, 308>>

\* The value the compiled function returns at (x, y, t); x and y are
\* numbers read from a position buffer, t is fixed-point.
Eval(func, x, y, t) ==
  CASE func = DefaultFormula ->
         SinSqrtMilli[((x * x + y * y) \div (Milli * Milli)) + 1]
    [] func = "x+t" -> x + t
    [] func = "Math.sin(x)/0" ->
         IF x = 0 THEN NaN ELSE IF x > 0 THEN PosInf ELSE NegInf
    [] func = "foo+1" -> 0
    [] func = "x=5" -> 5 * Milli

\* isNaN(y) ? 0 : y
NormaliseNaN(y) == IF IsNaN(y) THEN 0 ELSE y

(* ----------------------------- AI service ----------------------------- *)

\* The texts the user may leave in the search box, and query.trim().
Queries == { "", " ", "torus" }
Trim(q) == IF q = " " THEN "" ELSE q

\* What getMathFormula and getFormulaFromImage resolve with.
Results == { [formula |-> "x+t", title |-> "Plane wave"] }

\* JSON.stringify(error).toLowerCase(), as the set of the substrings
\* processError looks for that occur in it; and error.message, Null when
\* the error has none.
ErrStrs == SUBSET { "429", "quota", "403", "permission" }
Messages == { Null, "RESOURCE_EXHAUSTED" }
Includes(errStr, part) == part \in errStr

\* processError: the message and the type of the Error it returns; the
\* second test overrides what the first assigned.
processError(errStr, msg) ==
  [message |-> IF msg # Null THEN msg ELSE "Engine Link Failure",
   type |-> LET type == IF Includes(errStr, "429") \/ Includes(errStr, "quota")
                        THEN "QUOTA" ELSE "UNKNOWN"
            IN IF Includes(errStr, "403") \/ Includes(errStr, "permission")
               THEN "PERMISSION" ELSE type]

\* Whether the text of an error reports a quota failure, and how a request
\* that ended is remembered.
ReportsQuota(errStr) == Includes(errStr, "429") \/ Includes(errStr, "quota")
ReportsPermission(errStr) ==
  Includes(errStr, "403") \/ Includes(errStr, "permission")
Settled(ok, errStr) ==
  IF ok THEN "resolved"
  ELSE IF ReportsQuota(errStr) /\ ReportsPermission(errStr)
    THEN "quota and permission"
  ELSE IF ReportsQuota(errStr) THEN "quota"
  ELSE "other"

\* The message generateAiImage shows for a QUOTA error.
QuotaMessage == "AI Quota Exhausted. Using local high-res snapshot."

\* The image URLs: the data URL generateMathImage resolves with, and the
\* one getSnapshot returns.
ImagenUrl == "data:image/jpeg;base64,imagen"
SnapshotUrl == "data:image/jpeg;base64,canvas"

(* ------------------------------ geometry ------------------------------ *)

\* Vertices per side, vertices in all, and the length of a position buffer
\* (x, y, z per vertex).
Side == Segments + 1
NumVertices == Side * Side
BufLen == 3 * NumVertices

\* Coordinate of grid line i: the plane is centred on the origin, with
\* unit spacing.
Coord(i) == (i - (Segments \div 2)) * Milli

\* new THREE.PlaneGeometry(..).rotateX(-Math.PI / 2): row-major vertices
\* (x, 0, z).
PlaneGeometry ==
  [k \in 1..BufLen |->
     LET v == (k - 1) \div 3
         c == (k - 1) % 3
     IN CASE c = 0 -> Coord(v % Side)
          [] c = 1 -> 0
          [] c = 2 -> Coord(v \div Side)]

\* Index of x, y (the height) and z of vertex v (0-based) in a buffer.
XAt(v) == 3 * v + 1
YAt(v) == 3 * v + 2
ZAt(v) == 3 * v + 3
Vertices == 0..(NumVertices - 1)

(* --------------------------- pure operations -------------------------- *)

\* compileFormula with a catch block that leaves the evaluator alone.
compileFormula_KeepsPrior(text, prior) == IF Compiles(text) THEN text ELSE prior

\* compileFormula: the new evaluator, identified by its source text, or
\* null when new Function throws.
compileFormula(text, prior) == IF Compiles(text) THEN text ELSE Null

\* The loop of updateGraph writing the result over the x coordinate.
RECURSIVE UpdateVertices_WritesX(_, _, _, _)
UpdateVertices_WritesX(vertices, func, t, i) ==
  IF i > Len(vertices) THEN vertices
  ELSE UpdateVertices_WritesX(
         [vertices EXCEPT ![i] =
            NormaliseNaN(Eval(func, vertices[i], vertices[i + 2], t))],
         func, t, i + 3)

\* The loop of updateGraph over one position buffer, from index i.
RECURSIVE UpdateVertices(_, _, _, _)
UpdateVertices(vertices, func, t, i) ==
  IF i > Len(vertices) THEN vertices
  ELSE UpdateVertices(
         [vertices EXCEPT ![i + 1] =
            NormaliseNaN(Eval(func, vertices[i], vertices[i + 2], t))],
         func, t, i + 3)

\* A buffer with every height set to 0.
Flattened(vertices) ==
  [k \in 1..Len(vertices) |-> IF k % 3 = 2 THEN 0 ELSE vertices[k]]

\* updateGraph that flattens the surface when there is no evaluator.
updateGraph_FlattensWithoutEvaluator(wp, sp, mesh, func, t) ==
  IF ~mesh THEN <<wp, sp>>
  ELSE IF func = Null THEN <<Flattened(wp), Flattened(sp)>>
  ELSE <<UpdateVertices(wp, func, t, 1), UpdateVertices(sp, func, t, 1)>>

\* A loop that adds the result to the height already in the buffer.
RECURSIVE AccumulateVertices(_, _, _, _)
AccumulateVertices(vertices, func, t, i) ==
  IF i > Len(vertices) THEN vertices
  ELSE AccumulateVertices(
         [vertices EXCEPT ![i + 1] =
            @ + NormaliseNaN(Eval(func, vertices[i], vertices[i + 2], t))],
         func, t, i + 3)

\* updateGraph that accumulates heights instead of overwriting them.
updateGraph_Accumulates(wp, sp, mesh, func, t) ==
  IF ~mesh \/ func = Null THEN <<wp, sp>>
  ELSE <<AccumulateVertices(wp, func, t, 1), AccumulateVertices(sp, func, t, 1)>>

\* updateGraph that writes the wireframe geometry only.
updateGraph_WireframeOnly(wp, sp, mesh, func, t) ==
  IF ~mesh \/ func = Null THEN <<wp, sp>>
  ELSE <<UpdateVertices(wp, func, t, 1), sp>>

\* updateGraph(t) on the two geometries: <<wireframe buffer, shell buffer>>.
updateGraph(wp, sp, mesh, func, t) ==
  IF ~mesh \/ func = Null THEN <<wp, sp>>
  ELSE <<UpdateVertices(wp, func, t, 1), UpdateVertices(sp, func, t, 1)>>

\* The re-evaluation after a formula change without the isAnimated test.
regraphIfFrozen_Always(wp, sp, mesh, func, animated) ==
  updateGraph(wp, sp, mesh, func, 0)

\* if (!this.isAnimated) this.updateGraph(0), after a formula change.
regraphIfFrozen(wp, sp, mesh, func, animated) ==
  IF ~animated THEN updateGraph(wp, sp, mesh, func, 0) ELSE <<wp, sp>>

\* Whether updateGraph passes its guard and writes.
Writes(mesh, func) == mesh /\ func # Null

\* A MeshPhongMaterial: its colour and its emissive colour, the latter as
\* <<colour, factor in tenths>>.
Material(c, tenths) == [color |-> c, emissive |-> <<c, tenths>>]
NoMaterial == [color |-> Null, emissive |-> <<Null, 0>>]

\* updateMaterials with the wireframe's emissive factor on both layers.
updateMaterials_SameEmissive(wm, sm, mesh, c) ==
  IF ~mesh THEN <<wm, sm>>
  ELSE <<Material(c, WireEmissiveTenths), Material(c, WireEmissiveTenths)>>

\* updateMaterials: <<wireframe material, shell material>>.
updateMaterials(wm, sm, mesh, c) ==
  IF ~mesh THEN <<wm, sm>>
  ELSE <<Material(c, WireEmissiveTenths), Material(c, SolidEmissiveTenths)>>

\* The time of a frame without the time-scale multiplier.
AnimTime_Unscaled(clock, origin, scale) ==
  ((clock - origin) * Milli) \div MsPerSecond

\* t of a frame: (Date.now() - this.startTime) / 1000 * this.timeScale.
AnimTime(clock, origin, scale) ==
  (((clock - origin) * Milli) \div MsPerSecond) * scale

\* animate that advances the surface whatever the animated flag.
animate_IgnoresAnimatedFlag(pending, next, wp, sp, mesh, func, animated, t) ==
  [scheduled |-> pending \cup {next},
   animationFrameId |-> next,
   pos |-> updateGraph(wp, sp, mesh, func, t),
   seen |-> "pos",
   wrote |-> Writes(mesh, func),
   calls |-> <<"requestAnimationFrame", "controls.update", "updateGraph",
               "render">>]

\* animate that requests the next frame without storing its handle.
animate_DropsHandle(pending, next, wp, sp, mesh, func, animated, t) ==
  [scheduled |-> pending \cup {next},
   animationFrameId |-> NoFrame,
   pos |-> IF animated THEN updateGraph(wp, sp, mesh, func, t) ELSE <<wp, sp>>,
   seen |-> "pos",
   wrote |-> animated /\ Writes(mesh, func),
   calls |-> <<"requestAnimationFrame", "controls.update">>
             \o (IF animated THEN <<"updateGraph">> ELSE <<>>)
             \o <<"render">>]

\* animate that renders before it advances the surface.
animate_RendersBeforeAdvance(pending, next, wp, sp, mesh, func, animated, t) ==
  [scheduled |-> pending \cup {next},
   animationFrameId |-> next,
   pos |-> IF animated THEN updateGraph(wp, sp, mesh, func, t) ELSE <<wp, sp>>,
   seen |-> "prior",
   wrote |-> animated /\ Writes(mesh, func),
   calls |-> <<"requestAnimationFrame", "controls.update", "render">>
             \o (IF animated THEN <<"updateGraph">> ELSE <<>>)]

\* animate that requests the next frame only after the surface advanced,
\* and so not at all when updateGraph returns early.
animate_StopsWithoutEvaluator(pending, next, wp, sp, mesh, func, animated, t) ==
  [scheduled |-> IF animated /\ ~Writes(mesh, func)
                 THEN pending ELSE pending \cup {next},
   animationFrameId |-> IF animated /\ ~Writes(mesh, func)
                        THEN NoFrame ELSE next,
   pos |-> IF animated THEN updateGraph(wp, sp, mesh, func, t) ELSE <<wp, sp>>,
   seen |-> "pos",
   wrote |-> animated /\ Writes(mesh, func),
   calls |-> <<"controls.update">>
             \o (IF animated THEN <<"updateGraph">> ELSE <<>>)
             \o <<"render">>
             \o (IF animated /\ ~Writes(mesh, func)
                 THEN <<>> ELSE <<"requestAnimationFrame">>)]

\* animate(): request the next frame, update the controls, advance the
\* surface when animated, render.  pending are the callbacks still
\* scheduled when animate is entered, next the handle the request returns.
\* pos are the buffers after the frame; seen tells which buffers the render
\* read: those of pos, or the prior ones the frame was entered with.
animate(pending, next, wp, sp, mesh, func, animated, t) ==
  LET g == IF animated THEN updateGraph(wp, sp, mesh, func, t) ELSE <<wp, sp>>
  IN [scheduled |-> pending \cup {next},
      animationFrameId |-> next,
      pos |-> g,
      seen |-> "pos",
      wrote |-> animated /\ Writes(mesh, func),
      calls |-> <<"requestAnimationFrame", "controls.update">>
                \o (IF animated THEN <<"updateGraph">> ELSE <<>>)
                \o <<"render">>]

\* ngOnDestroy without the cancelAnimationFrame call.
cancelFrame_Forgotten(pending, handle) == pending

\* cancelAnimationFrame guarded by the truthiness of the stored handle.
cancelFrame(pending, handle) ==
  IF handle # NoFrame THEN pending \ {handle} ELSE pending

(* -------------------------------- state ------------------------------- *)

VARIABLES
  formula, color, isAnimated, timeScale,   \* the inputs
  scene, renderer, meshes,                 \* which objects exist
  animationFrameId, startTime, compiledFunc,
  wirePos, solidPos,                       \* position buffers of the layers
  wireMat, solidMat,
  cameraAspect, rendererSize, cameraFov,
  now,                                     \* Date.now()
  scheduled,                               \* pending animation frame callbacks
  nextFrameId,                             \* next handle of requestAnimationFrame
  resizeListener,                          \* window 'resize' listener registered
  containerSize,
  viewInit, destroyed,                     \* lifecycle hooks already run
  last,                                    \* the last hook or frame that ran
  lastT,                                   \* t of the last updateGraph that wrote
  attachTime,                              \* clock when ngAfterViewInit ran
  \* AppComponent (src/src/app.component.ts)
  appInit,                                 \* ngOnInit has run
  revealTimer,                             \* the reveal timeout is pending
  isLoading, query,
  searching, analyzing,                    \* formula requests in flight
  appFormula, title,
  errorMessage,
  isImageLoading, imagenStatus, imageUrl,
  imageRequests,                           \* image requests in flight
  snapshotTimers,                          \* pending snapshot timeouts
  imageSettled,                            \* how the last image request ended
  stream, isCameraActive, motionListener,
  liveStreams,                             \* streams whose tracks are live
  cameraRequests,                          \* startCamera awaiting getUserMedia
  constraining,                            \* startCamera awaiting the constraints
  previewTimers,                           \* pending srcObject timeouts
  srcObject,                               \* the video element shows a stream
  cameraStopped                            \* the call that stopped the camera
                                           \* since the last toggleCamera

inputs == <<formula, color, isAnimated, timeScale>>
surface == <<compiledFunc, wirePos, solidPos, lastT>>
materials == <<wireMat, solidMat>>
rig == <<scene, renderer, meshes, cameraAspect, rendererSize, cameraFov>>
loop == <<animationFrameId, scheduled, nextFrameId>>
startingCamera == <<cameraRequests, constraining, previewTimers, srcObject>>
camera == <<stream, isCameraActive, motionListener, liveStreams,
            startingCamera, cameraStopped>>
formulaRequests == <<isLoading, query, searching, analyzing, appFormula, title>>
imageRequest == <<isImageLoading, imagenStatus, imageUrl, imageRequests,
                  snapshotTimers, imageSettled>>
app == <<appInit, revealTimer, formulaRequests, errorMessage, imageRequest,
         camera>>
visualizer == <<inputs, surface, materials, rig, loop, startTime, now,
                resizeListener, containerSize, viewInit, destroyed,
                attachTime>>
vars == <<visualizer, last, app>>

\* The record of a handler that ran: its name, the calls of a frame in
\* order, whether it threw, whether its last updateGraph wrote, whether it
\* recompiled the formula (with lastT as it was before), and whether no
\* frame was scheduled before it.  saw, recolored and repeat are filled in
\* by Rendered, Recolored and Repeated.
Handled(op, calls, threw, wrote, recompiled, idle) ==
  [op |-> op, calls |-> calls, threw |-> threw, wrote |-> wrote,
   recompiled |-> recompiled, preT |-> IF recompiled THEN lastT ELSE -1,
   idleBefore |-> idle, saw |-> "none", recolored |-> FALSE,
   repeat |-> FALSE]

\* What a render that read the buffers seen showed, when the handler left
\* the buffers as after: a surface with one layer ahead of the other
\* ("torn"), the surface as it was before the handler wrote ("stale"), or
\* the surface as the handler left it ("whole").
RenderSaw(seen, after) ==
  IF seen[1] # seen[2] THEN "torn"
  ELSE IF seen # after THEN "stale" ELSE "whole"

\* The record h of a handler that rendered, that called updateMaterials on
\* existing meshes, that wrote the heights for the same t as the handler
\* before it.
Rendered(h, saw) == [h EXCEPT !.saw = saw]
Recolored(h, recolored) == [h EXCEPT !.recolored = recolored]
Repeated(h, repeat) == [h EXCEPT !.repeat = repeat]

Init ==
  /\ formula = DefaultFormula
  /\ color = DefaultColor
  /\ isAnimated = TRUE
  /\ timeScale = 1
  /\ scene = FALSE /\ renderer = FALSE /\ meshes = FALSE
  /\ animationFrameId = NoFrame
  /\ now = MsPerSecond
  /\ startTime = now
  /\ compiledFunc = Null
  /\ wirePos = <<>> /\ solidPos = <<>>
  /\ wireMat = NoMaterial /\ solidMat = NoMaterial
  /\ cameraAspect = <<0, 0>> /\ rendererSize = <<0, 0>>
  /\ cameraFov = 0
  /\ scheduled = {}
  /\ nextFrameId = 1
  /\ resizeListener = FALSE
  /\ containerSize = <<4, 2>>
  /\ viewInit = FALSE /\ destroyed = FALSE
  /\ last = [op |-> "constructor", calls |-> <<>>, threw |-> FALSE,
             wrote |-> FALSE, recompiled |-> FALSE, preT |-> -1,
             idleBefore |-> FALSE, saw |-> "none", recolored |-> FALSE,
             repeat |-> FALSE]
  /\ lastT = -1
  /\ attachTime = -1
  /\ appInit = FALSE /\ revealTimer = FALSE
  /\ isLoading = TRUE
  /\ query = ""
  /\ searching = 0 /\ analyzing = 0
  /\ appFormula = AppDefaultFormula
  /\ title = AppDefaultTitle
  /\ errorMessage = Null
  /\ isImageLoading = FALSE
  /\ imagenStatus = "active"
  /\ imageUrl = Null
  /\ imageRequests = 0
  /\ snapshotTimers = 0
  /\ imageSettled = "none"
  /\ stream = FALSE /\ isCameraActive = FALSE /\ motionListener = FALSE
  /\ liveStreams = 0
  /\ cameraRequests = 0 /\ constraining = 0
  /\ previewTimers = 0 /\ srcObject = FALSE
  /\ cameraStopped = "no"

(* ------------------------------- actions ------------------------------ *)

\* The clock advances by a second.
Tick ==
  /\ now < MaxClock * MsPerSecond
  /\ now' = now + MsPerSecond
  /\ UNCHANGED <<inputs, surface, materials, rig, loop, startTime,
                 resizeListener, containerSize, viewInit, destroyed, last,
                 attachTime, app>>

\* The host binds new input values; the changed ones are in changes.
ngOnChanges(f, c, a, ts) ==
  /\ ~destroyed
  /\ <<f, c, a, ts>> # inputs
  /\ formula' = f /\ color' = c /\ isAnimated' = a /\ timeScale' = ts
  /\ LET recompile == scene /\ f # formula
         regraph == recompile /\ ~a
         recolor == scene /\ c # color
     IN \E func \in {IF recompile THEN compileFormula(f, compiledFunc)
                      ELSE compiledFunc} :
        \E g \in {IF recompile
                   THEN regraphIfFrozen(wirePos, solidPos, meshes, func, a)
                   ELSE <<wirePos, solidPos>>} :
        \E m \in {IF recolor
                   THEN updateMaterials(wireMat, solidMat, meshes, c)
                   ELSE <<wireMat, solidMat>>} :
          /\ compiledFunc' = func
          /\ wirePos' = g[1] /\ solidPos' = g[2]
          /\ lastT' = IF regraph /\ Writes(meshes, func) THEN 0 ELSE lastT
          /\ wireMat' = m[1] /\ solidMat' = m[2]
          /\ last' = Recolored(
                        Handled("ngOnChanges", <<>>, FALSE,
                                regraph /\ Writes(meshes, func), recompile,
                                FALSE),
                        recolor /\ meshes)
  /\ UNCHANGED <<rig, loop, startTime, now, resizeListener, containerSize,
                 viewInit, destroyed, attachTime, app>>

\* ngAfterViewInit; glOk is whether the WebGL renderer can be created.
\* When it cannot, initThree throws after the scene and the camera exist.
ngAfterViewInit(glOk) ==
  /\ ~viewInit /\ ~destroyed
  /\ viewInit' = TRUE
  /\ attachTime' = now
  /\ scene' = TRUE
  /\ cameraAspect' = containerSize
  /\ cameraFov' = CameraFov
  /\ IF ~glOk
     THEN /\ last' = Handled("ngAfterViewInit", <<>>, TRUE, FALSE, FALSE, FALSE)
          /\ UNCHANGED <<renderer, meshes, rendererSize, surface, materials,
                         loop, resizeListener>>
     ELSE LET func == compileFormula(formula, compiledFunc)
              t == AnimTime(now, startTime, timeScale)
          IN \E created \in {updateGraph(PlaneGeometry, PlaneGeometry, TRUE,
                                          func, 0)} :
             \E a \in {animate(scheduled, nextFrameId, created[1], created[2],
                               TRUE, func, isAnimated, t)} :
               /\ renderer' = TRUE /\ meshes' = TRUE
               /\ rendererSize' = containerSize
               /\ compiledFunc' = func
               /\ wireMat' = Material(color, WireEmissiveTenths)
               /\ solidMat' = Material(color, SolidEmissiveTenths)
               /\ wirePos' = a.pos[1] /\ solidPos' = a.pos[2]
               /\ lastT' = IF a.wrote THEN t
                           ELSE IF Writes(TRUE, func) THEN 0 ELSE lastT
               /\ scheduled' = a.scheduled
               /\ animationFrameId' = a.animationFrameId
               /\ nextFrameId' = nextFrameId + 1
               /\ resizeListener' = TRUE
               /\ last' = Rendered(
                             Handled("ngAfterViewInit", a.calls, FALSE,
                                     Writes(TRUE, func), FALSE, FALSE),
                             RenderSaw(IF a.seen = "pos" THEN a.pos
                                       ELSE created, a.pos))
  /\ UNCHANGED <<inputs, startTime, now, containerSize, destroyed, app>>

\* The browser runs the scheduled animation frame callback id.
AnimationFrame(id) ==
  /\ id \in scheduled
  /\ nextFrameId <= MaxFrames
  /\ LET t == AnimTime(now, startTime, timeScale)
     IN \E a \in {animate(scheduled \ {id}, nextFrameId, wirePos, solidPos,
                          meshes, compiledFunc, isAnimated, t)} :
          /\ scheduled' = a.scheduled
          /\ animationFrameId' = a.animationFrameId
          /\ nextFrameId' = nextFrameId + 1
          /\ wirePos' = a.pos[1] /\ solidPos' = a.pos[2]
          /\ lastT' = IF a.wrote THEN t ELSE lastT
          /\ last' = Repeated(
                        Rendered(
                          Handled("animate", a.calls, FALSE, a.wrote, FALSE,
                                  FALSE),
                          RenderSaw(IF a.seen = "pos" THEN a.pos
                                    ELSE <<wirePos, solidPos>>, a.pos)),
                        /\ a.wrote /\ last.wrote /\ lastT = t
                        /\ last.op \in {"animate", "ngAfterViewInit"})
  /\ UNCHANGED <<inputs, compiledFunc, materials, rig, startTime, now,
                 resizeListener, containerSize, viewInit, destroyed,
                 attachTime, app>>

\* onWindowResize that narrows the vertical field of view with the
\* container, to keep the horizontal one.
WindowResize_RefitsFov(sz) ==
  /\ sz # containerSize
  /\ containerSize' = sz
  /\ IF resizeListener
     THEN /\ cameraAspect' = sz
          /\ rendererSize' = sz
          /\ cameraFov' = (CameraFov * sz[1]) \div 4
          /\ last' = Handled("onWindowResize", <<>>, FALSE, FALSE, FALSE,
                             FALSE)
     ELSE UNCHANGED <<cameraAspect, rendererSize, cameraFov, last>>
  /\ UNCHANGED <<inputs, surface, materials, scene, renderer, meshes,
                 loop, startTime, now, resizeListener, viewInit,
                 destroyed, attachTime, app>>

\* The window is resized to sz; the handler runs when it is registered.
WindowResize(sz) ==
  /\ sz # containerSize
  /\ containerSize' = sz
  /\ IF resizeListener
     THEN /\ cameraAspect' = sz
          /\ rendererSize' = sz
          /\ last' = Handled("onWindowResize", <<>>, FALSE, FALSE, FALSE,
                             FALSE)
     ELSE UNCHANGED <<cameraAspect, rendererSize, last>>
  /\ UNCHANGED <<inputs, surface, materials, scene, renderer, meshes,
                 cameraFov, loop, startTime, now, resizeListener, viewInit,
                 destroyed, attachTime, app>>

\* The record of a getSnapshot call: one render of the buffers as they
\* are, then toDataURL; this.renderer.render throws a TypeError when
\* initThree never created the renderer.
Snapshot ==
  Rendered(Handled("getSnapshot",
                   IF renderer THEN <<"render", "toDataURL">> ELSE <<>>,
                   ~renderer, FALSE, FALSE, FALSE),
           IF renderer
           THEN RenderSaw(<<wirePos, solidPos>>, <<wirePos, solidPos>>)
           ELSE "none")

\* getSnapshot that stops the loop while it reads the canvas.
getSnapshot_CancelsLoop ==
  /\ viewInit
  /\ scheduled' = cancelFrame(scheduled, animationFrameId)
  /\ last' = Snapshot
  /\ UNCHANGED <<inputs, surface, materials, rig, animationFrameId,
                 nextFrameId, startTime, now, resizeListener, containerSize,
                 viewInit, destroyed, attachTime, app>>

\* getSnapshot(), called by a holder of the component once its view is
\* initialised.
getSnapshot ==
  /\ viewInit
  /\ last' = Snapshot
  /\ UNCHANGED <<visualizer, app>>

\* ngOnDestroy that also disposes the renderer, which throws when
\* initThree never created one.
ngOnDestroy_DisposesRenderer ==
  /\ destroyed' = TRUE
  /\ scheduled' = cancelFrame(scheduled, animationFrameId)
  /\ resizeListener' = FALSE
  /\ last' = Handled("ngOnDestroy", <<>>, ~renderer, FALSE, FALSE,
                     scheduled = {})
  /\ UNCHANGED <<inputs, surface, materials, rig, animationFrameId,
                 nextFrameId, startTime, now, containerSize, viewInit,
                 attachTime, app>>

ngOnDestroy ==
  /\ destroyed' = TRUE
  /\ scheduled' = cancelFrame(scheduled, animationFrameId)
  /\ resizeListener' = FALSE
  /\ last' = Handled("ngOnDestroy", <<>>, FALSE, FALSE, FALSE,
                     scheduled = {})
  /\ UNCHANGED <<inputs, surface, materials, rig, animationFrameId,
                 nextFrameId, startTime, now, containerSize, viewInit,
                 attachTime, app>>

(* ---------------------------- AppComponent ---------------------------- *)

\* ngOnInit: arms the timeout of the reveal sequence.
ngOnInit ==
  /\ ~appInit
  /\ appInit' = TRUE
  /\ revealTimer' = TRUE
  /\ UNCHANGED <<visualizer, last, formulaRequests, errorMessage,
                 imageRequest, camera>>

\* The callback of the reveal timeout.
RevealTimeout ==
  /\ revealTimer
  /\ revealTimer' = FALSE
  /\ isLoading' = FALSE
  /\ UNCHANGED <<visualizer, last, appInit, query, searching, analyzing,
                 appFormula, title, errorMessage, imageRequest, camera>>

\* The user edits the search box.
SetQuery(q) ==
  /\ appInit
  /\ q # query
  /\ query' = q
  /\ UNCHANGED <<visualizer, last, appInit, revealTimer, isLoading, searching,
                 analyzing, appFormula, title, errorMessage, imageRequest,
                 camera>>

\* handleSearch up to its await; it returns at once on a blank query.
handleSearch ==
  /\ appInit
  /\ Trim(query) # ""
  /\ searching + analyzing < MaxRequests
  /\ isLoading' = TRUE
  /\ searching' = searching + 1
  /\ UNCHANGED <<visualizer, last, appInit, revealTimer, query, analyzing,
                 appFormula, title, errorMessage, imageRequest, camera>>

\* handleSearch after its await: getMathFormula resolved with result (ok)
\* or rejected with processError of an error.
handleSearch_Done(ok, result, errStr, msg) ==
  /\ searching > 0
  /\ searching' = searching - 1
  /\ IF ok
     THEN /\ appFormula' = result.formula
          /\ title' = result.title
          /\ query' = ""
          /\ UNCHANGED errorMessage
     ELSE /\ errorMessage' = processError(errStr, msg).message
          /\ UNCHANGED <<appFormula, title, query>>
  /\ isLoading' = FALSE
  /\ UNCHANGED <<visualizer, last, appInit, revealTimer, analyzing,
                 imageRequest, camera>>

\* stopCamera: stops the tracks of the stream it holds and drops it, clears
\* the flag, removes the devicemotion listener.  by is the caller.
stopCameraBy(by) ==
  /\ stream' = FALSE
  /\ liveStreams' = IF stream THEN liveStreams - 1 ELSE liveStreams
  /\ isCameraActive' = FALSE
  /\ motionListener' = FALSE
  /\ cameraStopped' = IF cameraStopped = "ngOnDestroy" THEN cameraStopped
                      ELSE by
  /\ UNCHANGED startingCamera

stopCamera == stopCameraBy("stopCamera")

\* captureAndAnalyze up to its await; preview is whether the video element
\* is in the view, without which it returns at once.
captureAndAnalyze(preview) ==
  /\ appInit
  /\ preview
  /\ searching + analyzing < MaxRequests
  /\ isLoading' = TRUE
  /\ analyzing' = analyzing + 1
  /\ UNCHANGED <<visualizer, last, appInit, revealTimer, query, searching,
                 appFormula, title, errorMessage, imageRequest, camera>>

\* captureAndAnalyze after its await.
captureAndAnalyze_Done(ok, result, errStr, msg) ==
  /\ analyzing > 0
  /\ analyzing' = analyzing - 1
  /\ IF ok
     THEN /\ appFormula' = result.formula
          /\ title' = result.title
          /\ stopCamera
          /\ UNCHANGED errorMessage
     ELSE /\ errorMessage' = processError(errStr, msg).message
          /\ UNCHANGED <<appFormula, title, camera>>
  /\ isLoading' = FALSE
  /\ UNCHANGED <<visualizer, last, appInit, revealTimer, query, searching,
                 imageRequest>>

\* captureLocalSnapshot: publishes what getSnapshot returns when the
\* ViewChild is resolved; the TypeError of getSnapshot leaves imageUrl.
captureLocalSnapshot ==
  IF ~viewInit THEN UNCHANGED <<last, imageUrl>>
  ELSE /\ last' = Snapshot
       /\ imageUrl' = IF renderer THEN SnapshotUrl ELSE imageUrl

\* The user asks for the snapshot.
SnapshotClick ==
  /\ appInit /\ viewInit
  /\ captureLocalSnapshot
  /\ UNCHANGED <<visualizer, appInit, revealTimer, formulaRequests,
                 errorMessage, isImageLoading, imagenStatus, imageRequests,
                 snapshotTimers, imageSettled, camera>>

\* generateAiImage up to its await.
generateAiImage ==
  /\ appInit
  /\ imageRequests + snapshotTimers < MaxRequests
  /\ isImageLoading' = TRUE
  /\ errorMessage' = Null
  /\ imageRequests' = imageRequests + 1
  /\ UNCHANGED <<visualizer, last, appInit, revealTimer, formulaRequests,
                 imagenStatus, imageUrl, snapshotTimers, imageSettled, camera>>

\* generateAiImage after its await: generateMathImage resolved (ok) or
\* rejected with processError of an error; a QUOTA error arms the timeout
\* of the local snapshot.
generateAiImage_Done(ok, errStr, msg) ==
  /\ imageRequests > 0
  /\ imageRequests' = imageRequests - 1
  /\ imageSettled' = Settled(ok, errStr)
  /\ IF ok
     THEN /\ imageUrl' = ImagenUrl
          /\ imagenStatus' = "active"
          /\ UNCHANGED <<errorMessage, snapshotTimers>>
     ELSE IF processError(errStr, msg).type = "QUOTA"
     THEN /\ imagenStatus' = "quota"
          /\ errorMessage' = QuotaMessage
          /\ snapshotTimers' = snapshotTimers + 1
          /\ UNCHANGED imageUrl
     ELSE /\ errorMessage' = processError(errStr, msg).message
          /\ UNCHANGED <<imagenStatus, imageUrl, snapshotTimers>>
  /\ isImageLoading' = FALSE
  /\ UNCHANGED <<visualizer, last, appInit, revealTimer, formulaRequests,
                 camera>>

\* The callback of the snapshot timeout.
SnapshotTimeout ==
  /\ snapshotTimers > 0
  /\ snapshotTimers' = snapshotTimers - 1
  /\ captureLocalSnapshot
  /\ UNCHANGED <<visualizer, appInit, revealTimer, formulaRequests,
                 errorMessage, isImageLoading, imagenStatus, imageRequests,
                 imageSettled, camera>>

\* closeMedia and clearError, when there is something to clear.
closeMedia ==
  /\ appInit
  /\ imageUrl # Null
  /\ imageUrl' = Null
  /\ UNCHANGED <<visualizer, last, appInit, revealTimer, formulaRequests,
                 errorMessage, isImageLoading, imagenStatus, imageRequests,
                 snapshotTimers, imageSettled, camera>>

clearError ==
  /\ appInit
  /\ errorMessage # Null
  /\ errorMessage' = Null
  /\ UNCHANGED <<visualizer, last, appInit, revealTimer, formulaRequests,
                 imageRequest, camera>>

\* toggleCamera on a live component: stopCamera when the camera is active,
\* else startCamera up to its await of getUserMedia.
toggleCamera ==
  /\ appInit
  /\ cameraStopped # "ngOnDestroy"
  /\ IF isCameraActive
     THEN stopCamera
     ELSE /\ cameraRequests + constraining + previewTimers + liveStreams
               < MaxRequests
          /\ cameraRequests' = cameraRequests + 1
          /\ cameraStopped' = "no"
          /\ UNCHANGED <<stream, isCameraActive, motionListener, liveStreams,
                         constraining, previewTimers, srcObject>>
  /\ UNCHANGED <<visualizer, last, appInit, revealTimer, formulaRequests,
                 errorMessage, imageRequest>>

\* startCamera after getUserMedia settled: the new stream replaces the one
\* held, the flag is set and applyCameraConstraints is awaited (granted);
\* or the catch block reports the failure.
startCamera_Granted(granted) ==
  /\ cameraRequests > 0
  /\ cameraRequests' = cameraRequests - 1
  /\ IF granted
     THEN /\ stream' = TRUE
          /\ liveStreams' = liveStreams + 1
          /\ isCameraActive' = TRUE
          /\ constraining' = constraining + 1
          /\ UNCHANGED errorMessage
     ELSE /\ errorMessage' = "Hardware access denied."
          /\ UNCHANGED <<stream, liveStreams, isCameraActive, constraining>>
  /\ UNCHANGED <<visualizer, last, appInit, revealTimer, formulaRequests,
                 imageRequest, motionListener, previewTimers, srcObject,
                 cameraStopped>>

\* startCamera after applyCameraConstraints returned: registers the
\* devicemotion listener and arms the timeout that sets srcObject.
startCamera_Constrained ==
  /\ constraining > 0
  /\ constraining' = constraining - 1
  /\ motionListener' = TRUE
  /\ previewTimers' = previewTimers + 1
  /\ UNCHANGED <<visualizer, last, appInit, revealTimer, formulaRequests,
                 errorMessage, imageRequest, stream, liveStreams,
                 isCameraActive, cameraRequests, srcObject, cameraStopped>>

\* The callback of the srcObject timeout; preview is whether the video
\* element is in the view.
PreviewTimeout(preview) ==
  /\ previewTimers > 0
  /\ previewTimers' = previewTimers - 1
  /\ srcObject' = IF preview THEN stream ELSE srcObject
  /\ UNCHANGED <<visualizer, last, appInit, revealTimer, formulaRequests,
                 errorMessage, imageRequest, stream, liveStreams,
                 isCameraActive, motionListener, cameraRequests, constraining,
                 cameraStopped>>

\* AppComponent.ngOnDestroy, once.
App_ngOnDestroy ==
  /\ appInit
  /\ cameraStopped # "ngOnDestroy"
  /\ stopCameraBy("ngOnDestroy")
  /\ UNCHANGED <<visualizer, last, appInit, revealTimer, formulaRequests,
                 errorMessage, imageRequest>>

(* --------------------------- specifications --------------------------- *)

\* The component under a host that changes the formula, the animated flag
\* and the time scale, and leaves the colour at its initial value.
Next ==
  \/ Tick
  \/ \E f \in Formulas, a \in BOOLEAN, ts \in TimeScales :
       ngOnChanges(f, color, a, ts)
  \/ \E glOk \in BOOLEAN : ngAfterViewInit(glOk)
  \/ \E id \in 1..MaxFrames : AnimationFrame(id)
  \/ \E sz \in Sizes : WindowResize(sz)
  \/ ngOnDestroy

Spec == Init /\ [][Next]_vars

\* The component with a holder that also takes snapshots, under a host
\* that changes the formula, the animated flag and the colour, and leaves
\* the time scale at its initial value.
NextView ==
  \/ Tick
  \/ \E f \in Formulas, c \in Colors, a \in BOOLEAN :
       ngOnChanges(f, c, a, timeScale)
  \/ \E glOk \in BOOLEAN : ngAfterViewInit(glOk)
  \/ \E id \in 1..MaxFrames : AnimationFrame(id)
  \/ \E sz \in Sizes : WindowResize(sz)
  \/ getSnapshot
  \/ ngOnDestroy

SpecView == Init /\ [][NextView]_vars

\* AppComponent with its formula requests and the reveal timeout.
NextSearch ==
  \/ ngOnInit
  \/ RevealTimeout
  \/ \E q \in Queries : SetQuery(q)
  \/ handleSearch
  \/ \E ok \in BOOLEAN, result \in Results, errStr \in ErrStrs,
        msg \in Messages : handleSearch_Done(ok, result, errStr, msg)
  \/ \E preview \in BOOLEAN : captureAndAnalyze(preview)
  \/ \E ok \in BOOLEAN, result \in Results, errStr \in ErrStrs,
        msg \in Messages : captureAndAnalyze_Done(ok, result, errStr, msg)
  \/ clearError

SpecSearch == Init /\ [][NextSearch]_vars

\* AppComponent with its image requests and the snapshot fallback, holding
\* a component that is initialised and destroyed.
NextImage ==
  \/ ngOnInit
  \/ \E glOk \in BOOLEAN : ngAfterViewInit(glOk)
  \/ ngOnDestroy
  \/ generateAiImage
  \/ \E ok \in BOOLEAN, errStr \in ErrStrs, msg \in Messages :
       generateAiImage_Done(ok, errStr, msg)
  \/ SnapshotTimeout
  \/ SnapshotClick
  \/ closeMedia
  \/ clearError

SpecImage == Init /\ [][NextImage]_vars

\* AppComponent with its camera: toggleCamera, the captures that stop the
\* camera, and ngOnDestroy.
NextCamera ==
  \/ ngOnInit
  \/ toggleCamera
  \/ \E granted \in BOOLEAN : startCamera_Granted(granted)
  \/ startCamera_Constrained
  \/ \E preview \in BOOLEAN : PreviewTimeout(preview)
  \/ \E preview \in BOOLEAN : captureAndAnalyze(preview)
  \/ \E ok \in BOOLEAN, result \in Results, errStr \in ErrStrs,
        msg \in Messages : captureAndAnalyze_Done(ok, result, errStr, msg)
  \/ App_ngOnDestroy

SpecCamera == Init /\ [][NextCamera]_vars

(* ------------------------- claims: vocabulary ------------------------- *)

\* Grid coordinates of vertex v, and its height in a position buffer.
GridX(v) == Coord(v % Side)
GridZ(v) == Coord(v \div Side)
Height(pos, v) == pos[YAt(v)]

\* The heights the evaluator func gives at time t, NaN replaced by 0.
ShowsSurface(pos, func, t) ==
  /\ Len(pos) = BufLen
  /\ \A v \in Vertices :
       Height(pos, v) = NormaliseNaN(Eval(func, GridX(v), GridZ(v), t))

HeightsUnchanged == wirePos' = wirePos /\ solidPos' = solidPos
NotFlat(pos) == \E v \in Vertices : Height(pos, v) # 0

\* A step that delivers a formula change to an initialised component.
FormulaChange == formula' # formula /\ scene

\* The expressions the restricted grammar of the specification rejects:
\* assignment, unknown identifier, statement construct, member access.
SpecRejects(text) ==
  \/ text = "x=5"
  \/ text = "foo+1"
  \/ text = "while(true){}"
  \/ text \in {DefaultFormula, "Math.sin(x)/0"}

(* --------------------------------- C1 --------------------------------- *)

\* C1 as claimed: when the compilation of a new formula text fails, the
\* evaluator compiled from the previous good text stays the active one.
C1_PriorEvaluatorKept ==
  [][(FormulaChange /\ compiledFunc # Null /\ ~Compiles(formula'))
       => compiledFunc' = compiledFunc]_vars

\* C1 amended: a failed compilation clears the evaluator, and while no
\* evaluator is active no step writes a height: both layers keep the
\* heights they had.
C1_FailedCompileClearsEvaluator ==
  [][/\ (FormulaChange /\ ~Compiles(formula')) => compiledFunc' = Null
     /\ (meshes /\ compiledFunc = Null /\ compiledFunc' = Null)
          => HeightsUnchanged]_vars

\* A frame ran with the animated flag set after a failed compilation, and
\* the surface still shows the shape an earlier evaluator gave it.
C1_Witness ==
  /\ last.op = "animate" /\ isAnimated /\ meshes
  /\ ~Compiles(formula) /\ compiledFunc = Null
  /\ NotFlat(wirePos) /\ NotFlat(solidPos)

(* --------------------------------- C2 --------------------------------- *)

\* C2 as claimed: a formula change to an expression the specification
\* rejects leaves the heights of both layers as they were.
C2_RejectedLeavesSurface ==
  [][(FormulaChange /\ meshes /\ SpecRejects(formula')) => HeightsUnchanged]_vars

\* C2 amended: a formula change to a text that does not compile leaves the
\* heights of both layers as they were, whatever the animated flag.
C2_UncompilableLeavesSurface ==
  [][(FormulaChange /\ ~Compiles(formula')) => HeightsUnchanged]_vars

\* A formula change to a text that does not compile was delivered with the
\* animated flag clear, to a surface that had a shape.
C2_Witness ==
  /\ last.op = "ngOnChanges" /\ last.recompiled /\ ~isAnimated /\ meshes
  /\ ~Compiles(formula)
  /\ NotFlat(wirePos) /\ NotFlat(solidPos)

(* --------------------------------- C3 --------------------------------- *)

C4_NoNonFiniteHeight ==
  /\ \A k \in 1..Len(wirePos) : IsFinite(wirePos[k])
  /\ \A k \in 1..Len(solidPos) : IsFinite(solidPos[k])

(* --------------------------------- C5 --------------------------------- *)

\* C5 as claimed: a formula change that compiles replaces the evaluator and
\* re-evaluates both layers, in the same call, at the time last used.
C5_ReevaluatesAtLastTime ==
  [][(FormulaChange /\ meshes /\ Compiles(formula') /\ lastT >= 0)
       => /\ compiledFunc' = formula'
          /\ ShowsSurface(wirePos', formula', lastT)
          /\ ShowsSurface(solidPos', formula', lastT)]_vars

\* C5 amended: a formula change that compiles replaces the evaluator; with
\* the animated flag clear both layers are re-evaluated in the same call at
\* t = 0, with the flag set the call leaves both layers as they were.
C5_ReevaluatesAtZeroWhenFrozen ==
  [][(FormulaChange /\ Compiles(formula'))
       => /\ compiledFunc' = formula'
          /\ isAnimated' => HeightsUnchanged
          /\ (~isAnimated' /\ meshes)
               => /\ ShowsSurface(wirePos', formula', 0)
                  /\ ShowsSurface(solidPos', formula', 0)]_vars

\* A time-dependent formula was delivered with the animated flag clear
\* after the surface had been advanced to a later time.
C5_Witness ==
  /\ last.op = "ngOnChanges" /\ last.recompiled /\ last.wrote
  /\ ~isAnimated /\ formula = "x+t"
  /\ last.preT > 0 /\ lastT = 0

(* --------------------------------- C6 --------------------------------- *)

\* A step in which a scheduled animation frame callback runs (every run of
\* animate requests a frame and stores a new handle).
FrameStep == viewInit /\ animationFrameId' # animationFrameId

\* C6: once ngOnDestroy has returned no animation step is scheduled, the
\* resize listener is not registered, and no later step runs either
\* callback: the loop, the surface, the camera and the renderer size stay
\* as they are.
C6_NoCallbackAfterDetach ==
  /\ [](destroyed => (scheduled = {} /\ ~resizeListener))
  /\ [][destroyed => UNCHANGED <<loop, surface, cameraAspect, rendererSize>>]_vars

\* The component was destroyed while a step was scheduled, after at least
\* one frame had run, and the window was resized after that.
C6_Witness ==
  /\ destroyed /\ last.op = "ngOnDestroy" /\ ~last.idleBefore
  /\ animationFrameId > 1
  /\ renderer /\ containerSize # rendererSize

(* --------------------------------- C7 --------------------------------- *)

Calls(name) == \E k \in 1..Len(last.calls) : last.calls[k] = name

\* C7: every animation step updates the controls and renders; it calls
\* updateGraph exactly when the animated flag is set, and with the flag
\* clear it leaves the heights of both layers as they were.
C7_StepAdvancesOnlyWhenAnimated ==
  [][FrameStep =>
       /\ last'.op = "animate"
       /\ \E k \in 1..Len(last'.calls) : last'.calls[k] = "controls.update"
       /\ last'.calls[Len(last'.calls)] = "render"
       /\ (\E k \in 1..Len(last'.calls) : last'.calls[k] = "updateGraph")
            <=> isAnimated
       /\ ~isAnimated => HeightsUnchanged]_vars

\* A frame ran with the flag clear and an evaluator present, while the
\* surface shows a time earlier than the time of that frame.
C7_Witness ==
  /\ last.op = "animate" /\ ~isAnimated /\ meshes /\ compiledFunc # Null
  /\ Calls("controls.update") /\ Calls("render") /\ ~Calls("updateGraph")
  /\ lastT >= 0 /\ lastT < AnimTime(now, startTime, timeScale)

(* --------------------------------- C8 --------------------------------- *)

\* An animation step, or the first run of animate in ngAfterViewInit, that
\* advanced the surface.
AdvancingStep ==
  /\ animationFrameId' # animationFrameId
  /\ isAnimated' /\ Writes(meshes', compiledFunc')

\* C8 as claimed: the time passed to updateGraph is timeScale times the
\* clock time elapsed since the loop was started.
C8_TimeFromLoopStart ==
  [][AdvancingStep
       => lastT' * MsPerSecond = (now' - attachTime') * timeScale' * Milli]_vars

\* C8 amended: the time passed to updateGraph is timeScale times the clock
\* time elapsed since the origin captured when the component was
\* constructed, and no step changes that origin.
C8_TimeFromConstruction ==
  [][/\ AdvancingStep
          => lastT' * MsPerSecond = (now' - startTime') * timeScale' * Milli
     /\ startTime' = startTime]_vars

\* A frame advanced the surface with a time scale of 2, in a component
\* whose loop was started after its construction.
C8_Witness ==
  /\ last.op = "animate" /\ last.wrote /\ isAnimated
  /\ attachTime > startTime /\ timeScale = 2
  /\ lastT = 2 * (now - startTime)

(* --------------------------------- C9 --------------------------------- *)

\* C9: at most one animation step is scheduled, the stored handle is the
\* handle of the scheduled step, and every step that runs schedules
\* exactly one successor, a new one.
C9_SingleScheduledStep ==
  /\ [](/\ Cardinality(scheduled) <= 1
        /\ scheduled # {} => scheduled = {animationFrameId})
  /\ [][FrameStep => /\ scheduled' = {animationFrameId'}
                     /\ animationFrameId' \notin scheduled]_vars

\* Two steps have run and one step is scheduled.
C9_Witness ==
  /\ last.op = "animate" /\ animationFrameId > 2
  /\ scheduled = {animationFrameId}

(* --------------------------------- C10 -------------------------------- *)

\* C10: an ngOnDestroy that runs when no step is scheduled does not throw
\* and leaves no step scheduled and no listener registered.
C10_DetachSafeFromIdle ==
  (last.op = "ngOnDestroy" /\ last.idleBefore)
    => (~last.threw /\ scheduled = {} /\ ~resizeListener /\ destroyed)

\* ngOnDestroy ran after an ngAfterViewInit that failed in initThree.
C10_Witness ==
  /\ last.op = "ngOnDestroy" /\ last.idleBefore
  /\ viewInit /\ scene /\ ~renderer /\ ~meshes

(* --------------------------------- C11 -------------------------------- *)

\* C11: every render, of a frame or of a snapshot, reads buffers in which
\* the two layers stand at the same heights and which are the buffers the
\* handler leaves; a frame calls updateGraph before render, and when its
\* updateGraph wrote, both layers show the evaluator's heights for the
\* frame's t.
C11_RenderSeesWholeSurface ==
  /\ last.saw \in {"none", "whole"}
  /\ \A i, j \in 1..Len(last.calls) :
       (last.calls[i] = "updateGraph" /\ last.calls[j] = "render") => i < j
  /\ (last.op = "animate" /\ last.wrote)
       => /\ ShowsSurface(wirePos, compiledFunc, lastT)
          /\ ShowsSurface(solidPos, compiledFunc, lastT)

\* A frame after the first advanced the surface to a t past 0 and rendered
\* it.
C11_Witness ==
  /\ last.op = "animate" /\ last.wrote /\ last.saw = "whole"
  /\ lastT > 0 /\ NotFlat(wirePos) /\ wirePos = solidPos

(* --------------------------------- C12 -------------------------------- *)

\* C12: getSnapshot on a component with a renderer renders once, reads the
\* canvas and does not throw; the evaluator, the heights of both layers,
\* the camera, the scheduled steps and the stored handle are after the call
\* what they were before it.
C12_SnapshotAltersNothing ==
  [][getSnapshot
       => /\ UNCHANGED <<compiledFunc, wirePos, solidPos>>
          /\ UNCHANGED <<cameraAspect, cameraFov>>
          /\ UNCHANGED <<scheduled, animationFrameId>>
          /\ renderer => (/\ last'.calls = <<"render", "toDataURL">>
                          /\ ~last'.threw)]_vars

\* A snapshot was taken of a surface that is not flat while a step was
\* scheduled.
C12_Witness ==
  /\ last.op = "getSnapshot" /\ ~last.threw /\ last.saw = "whole"
  /\ scheduled # {} /\ NotFlat(wirePos)

(* --------------------------------- C13 -------------------------------- *)

\* A step that delivers a colour change to a component with meshes.
ColourChange == color' # color /\ meshes

\* C13: a colour change sets the colour of both materials to the new
\* colour and their emissive colours to 0.4 and 0.1 times it, and leaves
\* the loop as it was; when the formula does not change in the same call,
\* the evaluator and every position of both layers are as before.
C13_ColourChangeTouchesMaterialsOnly ==
  [][ColourChange
       => /\ wireMat' = [color |-> color',
                         emissive |-> <<color', WireEmissiveTenths>>]
          /\ solidMat' = [color |-> color',
                          emissive |-> <<color', SolidEmissiveTenths>>]
          /\ UNCHANGED loop
          /\ (formula' = formula)
               => UNCHANGED <<compiledFunc, wirePos, solidPos>>]_vars

\* The colour of a surface that is not flat was changed while a step was
\* scheduled.
C13_Witness ==
  /\ last.op = "ngOnChanges" /\ last.recolored /\ ~last.recompiled
  /\ wireMat.color = color /\ solidMat.color = color
  /\ scheduled # {} /\ NotFlat(wirePos)

(* --------------------------------- C14 -------------------------------- *)

\* A step in which the container changes its size.
Resize == containerSize' # containerSize

\* C14: a resize leaves the vertical field of view, the evaluator, every
\* position of both layers, the materials, the inputs and the loop as they
\* were; the registered handler sets the camera aspect and the renderer
\* size to the new size of the container.
C14_ResizeTouchesAspectAndSizeOnly ==
  [][Resize
       => /\ UNCHANGED <<cameraFov, compiledFunc, wirePos, solidPos>>
          /\ UNCHANGED <<inputs, materials, loop, scene, renderer, meshes>>
          /\ resizeListener => (/\ cameraAspect' = containerSize'
                                /\ rendererSize' = containerSize')]_vars

\* The resize handler ran on a component whose surface is not flat.
C14_Witness ==
  /\ last.op = "onWindowResize" /\ meshes /\ NotFlat(wirePos)
  /\ cameraAspect = containerSize /\ rendererSize = containerSize
  /\ cameraFov = CameraFov

(* --------------------------------- C15 -------------------------------- *)

Raises(func) == func = "foo+1"

\* C16: a formula change whose compilation fails does not throw and leaves
\* the scheduled steps as they were; a step that runs without an evaluator
\* or with one that raises does not throw, updates the controls, renders
\* and leaves a next step scheduled.
C16_FailuresKeepLoopRunning ==
  [][/\ (FormulaChange /\ ~Compiles(formula'))
          => (scheduled' = scheduled /\ ~last'.threw)
     /\ (FrameStep /\ (compiledFunc = Null \/ Raises(compiledFunc)))
          => /\ ~last'.threw
             /\ scheduled' # {}
             /\ \E k \in 1..Len(last'.calls) :
                  last'.calls[k] = "controls.update"
             /\ \E k \in 1..Len(last'.calls) :
                  last'.calls[k] = "render"]_vars

\* An animated frame ran with an evaluator that raises at every sample,
\* wrote the fallback height everywhere and left a step scheduled.
C16_Witness ==
  /\ last.op = "animate" /\ isAnimated /\ Raises(compiledFunc)
  /\ last.wrote /\ Calls("render") /\ scheduled # {}
  /\ \A v \in Vertices : Height(wirePos, v) = 0

(* --------------------------------- C17 -------------------------------- *)

\* The buffer pos has the vertex count and the (x, z) coordinates the
\* PlaneGeometry had when createGraphMeshes made it.
GridIntact(pos) ==
  /\ Len(pos) = BufLen
  /\ \A v \in Vertices :
       pos[XAt(v)] = PlaneGeometry[XAt(v)] /\ pos[ZAt(v)] = PlaneGeometry[ZAt(v)]

\* C17: while the meshes exist both layers have the vertex count and the
\* (x, z) coordinates generated at attach, and so the same (x, z) at every
\* vertex index.
C17_GridImmutable ==
  meshes => /\ GridIntact(wirePos) /\ GridIntact(solidPos)
            /\ \A v \in Vertices : /\ wirePos[XAt(v)] = solidPos[XAt(v)]
                                   /\ wirePos[ZAt(v)] = solidPos[ZAt(v)]

\* A frame advanced the surface after the formula, the colour and the size
\* of the container had changed.
C17_Witness ==
  /\ last.op = "animate" /\ last.wrote /\ NotFlat(wirePos)
  /\ formula # DefaultFormula /\ color # DefaultColor
  /\ rendererSize # <<4, 2>>
  /\ GridIntact(wirePos) /\ GridIntact(solidPos)

(* --------------------------------- C18 -------------------------------- *)

\* A step in which an image request ends with an error whose text reports
\* a quota failure.
QuotaFailure ==
  /\ imageRequests' < imageRequests
  /\ imageSettled' \in {"quota", "quota and permission"}

\* C18 as claimed: an image request that ends with an error reporting a
\* quota failure, whatever else its text mentions, sets the status of the
\* image service to 'quota', clears the image loading flag and arms the
\* timeout that takes the local snapshot.
C18_QuotaFailureFallsBack ==
  [][QuotaFailure => /\ imagenStatus' = "quota"
                     /\ ~isImageLoading'
                     /\ snapshotTimers' = snapshotTimers + 1]_vars

(* --------------------------------- C19 -------------------------------- *)

\* C19: once ngAfterViewInit has run, the evaluator is null or the one
\* compiled from the formula input as it is now.
C19_EvaluatorFromCurrentFormula ==
  viewInit => compiledFunc \in {Null, formula}

\* ngAfterViewInit compiled a formula that was bound before it ran, in
\* place of the default one.
C19_Witness ==
  /\ last.op = "ngAfterViewInit" /\ ~last.threw
  /\ formula # DefaultFormula /\ compiledFunc = formula

(* --------------------------------- C20 -------------------------------- *)

\* The formula requests in flight.
InFlight == searching + analyzing

\* C20 as claimed: isLoading is set while a formula request is in flight,
\* and clear when none is and the reveal timeout has fired.
C20_LoadingTracksRequests ==
  /\ InFlight > 0 => isLoading
  /\ (appInit /\ ~revealTimer /\ InFlight = 0) => ~isLoading

(* --------------------------------- C21 -------------------------------- *)

\* C21 as claimed: from a stopCamera or an ngOnDestroy until the next
\* toggleCamera, no stream is held and none has live tracks, isCameraActive
\* is false and no devicemotion listener is registered.
C21_CameraStaysStopped ==
  cameraStopped # "no"
    => /\ ~stream /\ liveStreams = 0
       /\ ~isCameraActive
       /\ ~motionListener

====
